---- MODULE Spec2Model ----
(***************************************************************************)
(* State-machine model of the two HTTP servers of zerodha-mcp:             *)
(*   - the proxy server        src/kite_flask_tools_server.py (Flask)      *)
(*   - the self-terminating    src/main.py (FastAPI/uvicorn)               *)
(* Both bind 127.0.0.1:5000, so one behaviour is about one of them; the    *)
(* variable `variant` says which. Every HTTP request is one action that    *)
(* models the whole handler. The broker SDK (kiteconnect) is external: its *)
(* calls return or raise nondeterministically.                             *)
(*                                                                         *)
(* Python values: a str is a TLA+ string, None (as a scalar) is the string *)
(* None, a dict is a function from keys to values, a missing object is     *)
(* NONE, and an f-string is the sequence of its pieces.                    *)
(***************************************************************************)
EXTENDS Integers, Sequences, FiniteSets, TLC

VARIABLES
    variant,                \* which server this process is
    running,                \* the process is alive
    API_KEY,                \* proxy: os.getenv('ZERODHA_API_KEY')
    global_kite,            \* proxy: the global KiteConnect instance or NONE
    kite,                   \* main.py: the module-level KiteConnect instance
    stored_request_token,   \* main.py globals
    stored_auth_details,
    stored_redirect_params,
    server_instance,        \* main.py: uvicorn.Server or NONE
    shutdown_threads,       \* main.py: shutdown_server threads still sleeping
    req,                    \* the request handled last
    resp,                   \* the response to it
    calls,                  \* the broker calls made while handling it
    json_error_bases,       \* tool client: the classes of the error raised by
                            \* response.json() in the installed libraries
    tool_call,              \* tool client: the function called last
    http_requests,          \* the HTTP requests it issued, with their outcome
    returned,               \* what it returned, or the exception it raised
    browser,                \* the URLs it opened in the browser
    heap,                   \* threaded proxy: the KiteConnect objects created
    global_ref,             \* the object global_kite refers to, 0 for None
    handlers,               \* the request each worker thread is handling
    turn                    \* agent: the tool calls of the current turn

vars == <<variant, running, API_KEY, global_kite, kite, stored_request_token,
          stored_auth_details, stored_redirect_params, server_instance,
          shutdown_threads, req, resp, calls, json_error_bases, tool_call,
          http_requests, returned, browser, heap, global_ref, handlers,
          turn>>

proxyVars == <<API_KEY, global_kite>>
mainVars == <<kite, stored_request_token, stored_auth_details,
              stored_redirect_params, server_instance, shutdown_threads>>
clientVars == <<json_error_bases, tool_call, http_requests, returned, browser,
                turn>>
threadVars == <<heap, global_ref, handlers>>
serverVars == <<running, proxyVars, mainVars, req, resp, calls, threadVars>>

(***************************************************************************)
(* Bounds                                                                  *)
(***************************************************************************)
MaxThreads == 2     \* shutdown_server threads that may sleep at once
MaxHandlers == 2    \* worker threads handling requests at once
MaxObjects == 2     \* KiteConnect objects created in one run
MaxTurnCalls == 2   \* tool calls the agent makes in one turn

(***************************************************************************)
(* Python values                                                           *)
(***************************************************************************)
None == "None"
NONE == [None |-> TRUE]
EmptyDict == <<>>

\* truthiness of a scalar (str or None): `if x`, `not x`
Truthy(x) == x # None /\ x # ""
\* truthiness of an object or dict: `if d`, `not d`
TruthyObj(d) == d # NONE /\ DOMAIN d # {}
\* dict.get(k)
Get(d, k) == IF k \in DOMAIN d THEN d[k] ELSE None

API_SECRET == "SECRET"
ConfiguredKey == "K1"

\* KiteConnect(api_key=...): a fresh instance without access token
KiteConnect(key) == [api_key |-> key, access_token |-> None]
SetAccessToken_Forgets(k, t) == k

\* KiteConnect.set_access_token
SetAccessToken(k, t) == [k EXCEPT !.access_token = t]

(***************************************************************************)
(* Inputs and broker outcomes                                              *)
(***************************************************************************)
AccessTokenInputs == {None, "", "T1", "T2"}
RequestTokens == {None, "", "R1"}
StatusInputs == {None, "", "success", "SUCCESS", "failed", "FAILED"}
MetaInputs == {None, "login"}
RefreshTokens == {"F1"}
BrokerErrors == {"E1"}
\* a dict or list returned by the SDK, and an order id it returns
BrokerData == {[payload |-> "D1"]}
BrokerOrderIds == {"OID1"}

\* str.lower() on the strings the model draws
Lower(s) ==
    CASE s = "SUCCESS" -> "success"
      [] s = "FAILED" -> "failed"
      [] OTHER -> s

SixFields == {"access_token", "user_id", "user_name", "email",
              "public_token", "refresh_token"}

\* what the broker's token exchange / renewal returns on success
Bundle(a, withShort) ==
    IF withShort
    THEN [access_token |-> a, user_id |-> "U1", user_name |-> "N1",
          user_shortname |-> "S1", email |-> "M1", public_token |-> "P1",
          refresh_token |-> "F1", login_time |-> "L1"]
    ELSE [access_token |-> a, user_id |-> "U1", user_name |-> "N1",
          email |-> "M1", public_token |-> "P1",
          refresh_token |-> "F1", login_time |-> "L1"]
Bundles == {Bundle(a, s) : a \in {"A1", "A2"}, s \in BOOLEAN}

\* a broker call, as the SDK sees it: the operation, the access token the
\* instance holds at that moment, the arguments, and how the call ended
Call(op, k, args, o) ==
    [op |-> op, access_token |-> k.access_token, args |-> args, result |-> o]

(***************************************************************************)
(* Responses                                                               *)
(***************************************************************************)
Response(code, body) == [code |-> code, body |-> body]
ErrorBody(msg) == [status |-> "error", message |-> msg]

NoReq == [route |-> "none"]
NoResp == Response(0, EmptyDict)

\* response.json() raises requests.exceptions.JSONDecodeError from requests
\* 2.27 on and the JSON library's own error before; the JSON library is
\* simplejson when it is installed
JsonErrorBases ==
    {{"RequestException", "json.JSONDecodeError"},
     {"RequestException", "simplejson.JSONDecodeError"},
     {"json.JSONDecodeError"},
     {"simplejson.JSONDecodeError"}}

NoToolCall == [name |-> "none"]

\* the worker threads of the development server, and a thread between requests
Handlers == 1..MaxHandlers
IdleHandler ==
    [pc |-> "idle", route |-> "none", obj |-> 0, gate_token |-> None,
     writers |-> {}, params |-> NONE]

Init ==
    /\ variant \in {"proxy", "self_terminating", "tool_client"}
    /\ json_error_bases \in JsonErrorBases
    /\ (variant # "tool_client"
        => json_error_bases = {"RequestException", "json.JSONDecodeError"})
    /\ tool_call = NoToolCall
    /\ http_requests = <<>>
    /\ returned = EmptyDict
    /\ browser = <<>>
    /\ turn = <<>>
    /\ heap = <<>>
    /\ global_ref = 0
    /\ handlers = [t \in Handlers |-> IdleHandler]
    /\ running = TRUE
    /\ API_KEY \in {None, ConfiguredKey}
    /\ (variant # "proxy" => API_KEY = ConfiguredKey)
    /\ global_kite = NONE
    /\ kite = KiteConnect(ConfiguredKey)
    /\ stored_request_token = None
    /\ stored_auth_details = NONE
    /\ stored_redirect_params = NONE
    /\ server_instance \in {NONE, [should_exit |-> FALSE]}
    /\ (variant # "self_terminating" => server_instance = NONE)
    /\ shutdown_threads = 0
    /\ req = NoReq
    /\ resp = NoResp
    /\ calls = <<>>


(***************************************************************************)
(* Proxy server: src/kite_flask_tools_server.py                            *)
(***************************************************************************)
ProxyUp == variant = "proxy" /\ running

\* the outcome of one broker call: it raises, or it returns a value
Outcomes(values) ==
    {[raised |-> TRUE, error |-> e] : e \in BrokerErrors}
        \cup {[raised |-> FALSE, value |-> v] : v \in values}

NotAuthenticatedMsg == <<"Not authenticated. Please login first.">>
NotInitializedMsg == <<"KiteConnect instance not initialized.">>

check_authentication_NoTokenCheck == global_kite # NONE

\* check_authentication()[0]
check_authentication ==
    ~ (global_kite = NONE \/ ~Truthy(global_kite.access_token))

check_auth_endpoint_OwnTest ==
    /\ ProxyUp
    /\ req' = [route |-> "check_auth_endpoint"]
    /\ resp' = IF global_kite = NONE
               THEN Response(200, ErrorBody(NotAuthenticatedMsg))
               ELSE Response(200, [status |-> "success",
                                   message |-> <<"Session is authenticated.">>])
    /\ calls' = <<>>
    /\ UNCHANGED <<variant, clientVars, threadVars, running, proxyVars, mainVars>>

\* GET /api/auth/check (the error response is returned without a status code)
check_auth_endpoint ==
    /\ ProxyUp
    /\ req' = [route |-> "check_auth_endpoint"]
    /\ resp' = IF ~check_authentication
               THEN Response(200, ErrorBody(NotAuthenticatedMsg))
               ELSE Response(200, [status |-> "success",
                                   message |-> <<"Session is authenticated.">>])
    /\ calls' = <<>>
    /\ UNCHANGED <<variant, clientVars, threadVars, running, proxyVars, mainVars>>

\* KiteConnect.login_url()
LoginUrl(k) == <<"https://kite.zerodha.com/connect/login?api_key=", k.api_key, "&v=3">>

\* GET /login
login ==
    /\ ProxyUp
    /\ req' = [route |-> "login"]
    /\ calls' = <<>>
    /\ IF ~Truthy(API_KEY)
       THEN /\ resp' = Response(500, ErrorBody(<<"API Key not configured.">>))
            /\ global_kite' = global_kite
       ELSE /\ global_kite' = KiteConnect(API_KEY)
            /\ resp' = Response(200, [status |-> "success",
                                      login_url |-> LoginUrl(global_kite')])
    /\ UNCHANGED <<variant, clientVars, threadVars, running, API_KEY, mainVars>>

ExchangeCalls_RetryOnFailure(k, rt, o) ==
    IF o.raised
    THEN <<Call("generate_session", k,
                [request_token |-> rt, api_secret |-> API_SECRET], o),
           Call("generate_session", k,
                [request_token |-> rt, api_secret |-> API_SECRET], o)>>
    ELSE <<Call("generate_session", k,
                [request_token |-> rt, api_secret |-> API_SECRET], o)>>

\* the broker calls of one redirect callback whose guards passed:
\* generate_session(request_token, api_secret=API_SECRET), inside one try
ExchangeCalls(k, rt, o) ==
    <<Call("generate_session", k,
           [request_token |-> rt, api_secret |-> API_SECRET], o)>>

RedirectReq(rt, ac, ty, st) ==
    [route |-> "trade_redirect", request_token |-> rt, action |-> ac,
     type |-> ty, status |-> st]

trade_redirect_success_WithSecret(session_data) ==
    Response(200, [status |-> "success",
                   message |-> <<"Authentication successful!">>,
                   data |-> [k \in DOMAIN session_data \cup {"api_secret"} |->
                                IF k = "api_secret" THEN API_SECRET
                                ELSE session_data[k]]])

\* lines 116-120: the success response of the redirect callback
trade_redirect_success(session_data) ==
    Response(200, [status |-> "success",
                   message |-> <<"Authentication successful!">>,
                   data |-> session_data])

\* GET /trade/redirect
trade_redirect ==
    /\ ProxyUp
    /\ \E rt \in RequestTokens, m \in MetaInputs, st \in StatusInputs :
        /\ req' = RedirectReq(rt, m, m, st)
        /\ IF ~Truthy(rt)
           THEN /\ resp' = Response(400, ErrorBody(<<"No request_token found in callback.">>))
                /\ calls' = <<>>
                /\ global_kite' = global_kite
           ELSE IF global_kite = NONE
           THEN /\ resp' = Response(500, ErrorBody(NotInitializedMsg))
                /\ calls' = <<>>
                /\ global_kite' = global_kite
           ELSE \E o \in Outcomes(Bundles) :
                /\ calls' = ExchangeCalls(global_kite, rt, o)
                /\ IF o.raised
                   THEN /\ global_kite' = global_kite
                        /\ resp' = Response(500, ErrorBody(<<"Authentication failed: ", o.error>>))
                   ELSE /\ global_kite' = SetAccessToken(global_kite, o.value["access_token"])
                        /\ resp' = trade_redirect_success(o.value)
    /\ UNCHANGED <<variant, clientVars, threadVars, running, API_KEY, mainVars>>

TokenSetBodies ==
    {NONE, EmptyDict, [other |-> "x"]}
        \cup {[access_token |-> t] : t \in AccessTokenInputs}

set_access_token_KeepExisting(params) ==
    IF global_kite = NONE
    THEN SetAccessToken(KiteConnect(API_KEY), params["access_token"])
    ELSE IF Truthy(global_kite.access_token) THEN global_kite
    ELSE SetAccessToken(global_kite, params["access_token"])

set_access_token_SkipFalsy(params) ==
    IF Truthy(params["access_token"])
    THEN SetAccessToken(IF global_kite = NONE THEN KiteConnect(API_KEY) ELSE global_kite,
                        params["access_token"])
    ELSE IF global_kite = NONE THEN KiteConnect(API_KEY) ELSE global_kite

\* lines 146-149: the instance after the token is set
set_access_token_Store(params) ==
    SetAccessToken(IF global_kite = NONE THEN KiteConnect(API_KEY) ELSE global_kite,
                   params["access_token"])

\* POST /api/auth/token/set
set_access_token ==
    /\ ProxyUp
    /\ \E params \in TokenSetBodies :
        /\ req' = [route |-> "set_access_token", body |-> params]
        /\ calls' = <<>>
        /\ IF ~TruthyObj(params) \/ "access_token" \notin DOMAIN params
           THEN /\ resp' = Response(400, ErrorBody(<<"Missing 'access_token' in request body.">>))
                /\ global_kite' = global_kite
           ELSE /\ global_kite' = set_access_token_Store(params)
                /\ resp' = Response(200, [status |-> "success",
                                          message |-> <<"Access token set successfully.">>])
    /\ UNCHANGED <<variant, clientVars, threadVars, running, API_KEY, mainVars>>

RenewBodies ==
    {NONE, EmptyDict, [other |-> "x"]}
        \cup {[refresh_token |-> f] : f \in RefreshTokens}

renew_access_token_FreshInstance(session_data) ==
    SetAccessToken(KiteConnect(None), session_data["access_token"])

\* line 179: the instance after the renewed token is set
renew_access_token_Store(session_data) ==
    SetAccessToken(global_kite, session_data["access_token"])

renew_access_token_ClearsOnFailure ==
    /\ ProxyUp
    /\ \E params \in RenewBodies :
        /\ req' = [route |-> "renew_access_token", body |-> params]
        /\ IF ~TruthyObj(params) \/ "refresh_token" \notin DOMAIN params
           THEN /\ resp' = Response(400, ErrorBody(<<"Missing 'refresh_token' in request body.">>))
                /\ calls' = <<>>
                /\ global_kite' = global_kite
           ELSE IF global_kite = NONE
           THEN /\ resp' = Response(500, ErrorBody(NotInitializedMsg))
                /\ calls' = <<>>
                /\ global_kite' = global_kite
           ELSE \E o \in Outcomes(Bundles) :
                /\ calls' = <<Call("renew_access_token", global_kite,
                                   [refresh_token |-> params["refresh_token"],
                                    api_secret |-> API_SECRET], o)>>
                /\ IF o.raised
                   THEN /\ global_kite' = SetAccessToken(global_kite, None)
                        /\ resp' = Response(500, ErrorBody(<<o.error>>))
                   ELSE /\ global_kite' = renew_access_token_Store(o.value)
                        /\ resp' = Response(200, [status |-> "success", data |-> o.value])
    /\ UNCHANGED <<variant, clientVars, threadVars, running, API_KEY, mainVars>>

\* POST /api/auth/token/renew
renew_access_token ==
    /\ ProxyUp
    /\ \E params \in RenewBodies :
        /\ req' = [route |-> "renew_access_token", body |-> params]
        /\ IF ~TruthyObj(params) \/ "refresh_token" \notin DOMAIN params
           THEN /\ resp' = Response(400, ErrorBody(<<"Missing 'refresh_token' in request body.">>))
                /\ calls' = <<>>
                /\ global_kite' = global_kite
           ELSE IF global_kite = NONE
           THEN /\ resp' = Response(500, ErrorBody(NotInitializedMsg))
                /\ calls' = <<>>
                /\ global_kite' = global_kite
           ELSE \E o \in Outcomes(Bundles) :
                /\ calls' = <<Call("renew_access_token", global_kite,
                                   [refresh_token |-> params["refresh_token"],
                                    api_secret |-> API_SECRET], o)>>
                /\ IF o.raised
                   THEN /\ global_kite' = global_kite
                        /\ resp' = Response(500, ErrorBody(<<o.error>>))
                   ELSE /\ global_kite' = renew_access_token_Store(o.value)
                        /\ resp' = Response(200, [status |-> "success", data |-> o.value])
    /\ UNCHANGED <<variant, clientVars, threadVars, running, API_KEY, mainVars>>


(***************************************************************************)
(* Privileged routes                                                       *)
(***************************************************************************)
Unauthenticated == Response(401, ErrorBody(NotAuthenticatedMsg))
EmptyBody == Response(400, ErrorBody(<<"Request body cannot be empty.">>))

BrokerResponse_DataOnError(o, asOrderId) ==
    IF o.raised
    THEN Response(500, [status |-> "error", message |-> <<o.error>>,
                        data |-> EmptyDict])
    ELSE Response(200, [status |-> "success",
                        data |-> IF asOrderId THEN [order_id |-> o.value]
                                 ELSE o.value])

\* the response to a broker call that raised or returned
BrokerResponse(o, asOrderId) ==
    IF o.raised
    THEN Response(500, ErrorBody(<<o.error>>))
    ELSE Response(200, [status |-> "success",
                        data |-> IF asOrderId THEN [order_id |-> o.value]
                                 ELSE o.value])

PrivilegedNoBody_Dedup(route, op, argsets, asOrderId) ==
    /\ \E args \in argsets :
        /\ req' = [route |-> route, args |-> args]
        /\ IF ~check_authentication
           THEN /\ resp' = Unauthenticated
                /\ calls' = <<>>
           ELSE IF req = [route |-> route, args |-> args] /\ resp.code = 200
           THEN /\ resp' = resp
                /\ calls' = <<>>
           ELSE \E o \in Outcomes(IF asOrderId THEN BrokerOrderIds ELSE BrokerData) :
                /\ calls' = <<Call(op, global_kite, args, o)>>
                /\ resp' = BrokerResponse(o, asOrderId)
    /\ UNCHANGED <<variant, clientVars, threadVars, running, proxyVars, mainVars>>

\* a privileged route without a request body
PrivilegedNoBody(route, op, argsets, asOrderId) ==
    /\ \E args \in argsets :
        /\ req' = [route |-> route, args |-> args]
        /\ IF ~check_authentication
           THEN /\ resp' = Unauthenticated
                /\ calls' = <<>>
           ELSE \E o \in Outcomes(IF asOrderId THEN BrokerOrderIds ELSE BrokerData) :
                /\ calls' = <<Call(op, global_kite, args, o)>>
                /\ resp' = BrokerResponse(o, asOrderId)
    /\ UNCHANGED <<variant, clientVars, threadVars, running, proxyVars, mainVars>>

PrivilegedBody_BodyFirst(route, op, bodies, asOrderId) ==
    /\ \E params \in bodies :
        /\ req' = [route |-> route, body |-> params]
        /\ IF ~TruthyObj(params)
           THEN /\ resp' = EmptyBody
                /\ calls' = <<>>
           ELSE IF ~check_authentication
           THEN /\ resp' = Unauthenticated
                /\ calls' = <<>>
           ELSE \E o \in Outcomes(IF asOrderId THEN BrokerOrderIds ELSE BrokerData) :
                /\ calls' = <<Call(op, global_kite, params, o)>>
                /\ resp' = BrokerResponse(o, asOrderId)
    /\ UNCHANGED <<variant, clientVars, threadVars, running, proxyVars, mainVars>>

\* a privileged route that forwards its JSON body to the broker
PrivilegedBody(route, op, bodies, asOrderId) ==
    /\ \E params \in bodies :
        /\ req' = [route |-> route, body |-> params]
        /\ IF ~check_authentication
           THEN /\ resp' = Unauthenticated
                /\ calls' = <<>>
           ELSE IF ~TruthyObj(params)
           THEN /\ resp' = EmptyBody
                /\ calls' = <<>>
           ELSE \E o \in Outcomes(IF asOrderId THEN BrokerOrderIds ELSE BrokerData) :
                /\ calls' = <<Call(op, global_kite, params, o)>>
                /\ resp' = BrokerResponse(o, asOrderId)
    /\ UNCHANGED <<variant, clientVars, threadVars, running, proxyVars, mainVars>>

NoArgs == {EmptyDict}
OrderPath == {[variety |-> "regular", order_id |-> "O1", parent_order_id |-> None]}
OrderBodies == {NONE, EmptyDict, [tradingsymbol |-> "INFY"]}

get_profile ==
    /\ ProxyUp
    /\ PrivilegedNoBody("get_profile", "profile", NoArgs, FALSE)
get_margins ==
    /\ ProxyUp
    /\ PrivilegedNoBody("get_margins", "margins", {[segment |-> None], [segment |-> "equity"]}, FALSE)
get_holdings ==
    /\ ProxyUp
    /\ PrivilegedNoBody("get_holdings", "holdings", NoArgs, FALSE)
get_positions ==
    /\ ProxyUp
    /\ PrivilegedNoBody("get_positions", "positions", NoArgs, FALSE)
convert_position ==
    /\ ProxyUp
    /\ PrivilegedBody("convert_position", "convert_position", OrderBodies, FALSE)
place_order ==
    /\ ProxyUp
    /\ PrivilegedBody("place_order", "place_order", OrderBodies, TRUE)
modify_order ==
    /\ ProxyUp
    /\ PrivilegedBody("modify_order", "modify_order", OrderBodies, TRUE)
cancel_order ==
    /\ ProxyUp
    /\ PrivilegedNoBody("cancel_order", "cancel_order", OrderPath, TRUE)
exit_order ==
    /\ ProxyUp
    /\ PrivilegedNoBody("exit_order", "exit_order", OrderPath, TRUE)
get_trades ==
    /\ ProxyUp
    /\ PrivilegedNoBody("get_trades", "trades", NoArgs, FALSE)
place_gtt ==
    /\ ProxyUp
    /\ PrivilegedBody("place_gtt", "place_gtt", OrderBodies, FALSE)
delete_gtt ==
    /\ ProxyUp
    /\ PrivilegedNoBody("delete_gtt", "delete_gtt", {[trigger_id |-> "G1"]}, FALSE)

PrivilegedRoutes ==
    {"get_profile", "get_margins", "get_holdings", "get_positions",
     "convert_position", "place_order", "modify_order", "cancel_order",
     "exit_order", "get_trades", "place_gtt", "delete_gtt",
     "get_historical_data"}


(***************************************************************************)
(* datetime.datetime.strptime, on strings given as sequences of characters *)
(***************************************************************************)
Digits == {"0", "1", "2", "3", "4", "5", "6", "7", "8", "9"}
DigitVal(c) ==
    CASE c = "0" -> 0 [] c = "1" -> 1 [] c = "2" -> 2 [] c = "3" -> 3
      [] c = "4" -> 4 [] c = "5" -> 5 [] c = "6" -> 6 [] c = "7" -> 7
      [] c = "8" -> 8 [] c = "9" -> 9

IsDigitAt(s, i) == i >= 1 /\ i <= Len(s) /\ s[i] \in Digits
IsCharAt(s, i, c) == i >= 1 /\ i <= Len(s) /\ s[i] = c

NoMatch == [ok |-> FALSE, next |-> 0, val |-> 0]

\* a numeric directive whose regex is "two digits in lo..hi | one digit >= min1"
\* (%m: 1[0-2]|0[1-9]|[1-9]; %H: 2[0-3]|[0-1]\d|\d; %M: [0-5]\d|\d;
\*  %S: 6[0-1]|[0-5]\d|\d); the two-digit alternatives come first
Field(s, i, lo, hi, min1) ==
    IF IsDigitAt(s, i) /\ IsDigitAt(s, i + 1)
       /\ 10 * DigitVal(s[i]) + DigitVal(s[i + 1]) >= lo
       /\ 10 * DigitVal(s[i]) + DigitVal(s[i + 1]) <= hi
    THEN [ok |-> TRUE, next |-> i + 2,
          val |-> 10 * DigitVal(s[i]) + DigitVal(s[i + 1])]
    ELSE IF IsDigitAt(s, i) /\ DigitVal(s[i]) >= min1
    THEN [ok |-> TRUE, next |-> i + 1, val |-> DigitVal(s[i])]
    ELSE NoMatch

\* %d: 3[0-1]|[1-2]\d|0[1-9]|[1-9]| [1-9]
FieldDay(s, i) ==
    IF Field(s, i, 1, 31, 1).ok THEN Field(s, i, 1, 31, 1)
    ELSE IF IsCharAt(s, i, " ") /\ IsDigitAt(s, i + 1) /\ DigitVal(s[i + 1]) >= 1
    THEN [ok |-> TRUE, next |-> i + 2, val |-> DigitVal(s[i + 1])]
    ELSE NoMatch

\* %Y: \d\d\d\d
FieldYear(s, i) ==
    IF \A j \in i..(i + 3) : IsDigitAt(s, j)
    THEN [ok |-> TRUE, next |-> i + 4,
          val |-> 1000 * DigitVal(s[i]) + 100 * DigitVal(s[i + 1])
                  + 10 * DigitVal(s[i + 2]) + DigitVal(s[i + 3])]
    ELSE NoMatch

\* a literal character of the format
Lit(s, i, c) == IF IsCharAt(s, i, c) THEN i + 1 ELSE 0

\* whitespace of the format is \s+ : the index after the run of blanks at i
RECURSIVE SkipBlanks(_, _)
SkipBlanks(s, i) == IF IsCharAt(s, i, " ") THEN SkipBlanks(s, i + 1) ELSE i
Blanks(s, i) == IF IsCharAt(s, i, " ") THEN SkipBlanks(s, i) ELSE 0

IsLeap(y) == (y % 4 = 0 /\ y % 100 # 0) \/ y % 400 = 0
DaysIn(y, m) ==
    IF m = 2 THEN (IF IsLeap(y) THEN 29 ELSE 28)
    ELSE IF m \in {4, 6, 9, 11} THEN 30 ELSE 31

ValueError(msg) == [ok |-> FALSE, error |-> msg]

\* the date part "%Y-%m-%d" matched at the start of s
MatchDate(s) ==
    LET Y == FieldYear(s, 1)
        m == Field(s, Lit(s, Y.next, "-"), 1, 12, 1)
        d == FieldDay(s, Lit(s, m.next, "-"))
    IN  [ok |-> Y.ok /\ m.ok /\ d.ok, next |-> d.next,
         year |-> Y.val, month |-> m.val, day |-> d.val]

DateIsValid(D) == D.year >= 1 /\ D.day <= DaysIn(D.year, D.month)

\* datetime.datetime.strptime(s, "%Y-%m-%d %H:%M:%S")
StrptimeDateTime(s) ==
    LET D == MatchDate(s)
        H == Field(s, Blanks(s, D.next), 0, 23, 0)
        M == Field(s, Lit(s, H.next, ":"), 0, 59, 0)
        S == Field(s, Lit(s, M.next, ":"), 0, 61, 0)
    IN  IF ~(D.ok /\ H.ok /\ M.ok /\ S.ok)
        THEN ValueError("time data does not match format '%Y-%m-%d %H:%M:%S'")
        ELSE IF S.next # Len(s) + 1
        THEN ValueError("unconverted data remains")
        ELSE IF ~DateIsValid(D)
        THEN ValueError("day is out of range for month")
        ELSE IF S.val > 59
        THEN ValueError("second must be in 0..59")
        ELSE [ok |-> TRUE,
              value |-> [kind |-> "datetime", year |-> D.year, month |-> D.month,
                         day |-> D.day, hour |-> H.val, minute |-> M.val,
                         second |-> S.val]]

\* datetime.datetime.strptime(s, "%Y-%m-%d").date()
StrptimeDate(s) ==
    LET D == MatchDate(s)
    IN  IF ~D.ok
        THEN ValueError("time data does not match format '%Y-%m-%d'")
        ELSE IF D.next # Len(s) + 1
        THEN ValueError("unconverted data remains")
        ELSE IF ~DateIsValid(D)
        THEN ValueError("day is out of range for month")
        ELSE [ok |-> TRUE,
              value |-> [kind |-> "date", year |-> D.year, month |-> D.month,
                         day |-> D.day]]

ParseDateField_DateOnly(s) == StrptimeDate(s)

\* lines 448-451: the first format, and on ValueError the second
ParseDateField(s) ==
    IF StrptimeDateTime(s).ok THEN StrptimeDateTime(s) ELSE StrptimeDate(s)


(***************************************************************************)
(* POST /api/market/historical                                             *)
(***************************************************************************)
TimestampString == <<"2","0","2","4","-","0","1","-","0","5"," ","0","9",":","1","5",":","0","0">>
DateOnlyString == <<"2","0","2","4","-","0","1","-","0","5">>
IsoString == <<"2","0","2","4","-","0","1","-","0","5","T","0","9",":","1","5">>
UnpaddedDateString == <<"2","0","2","4","-","1","-","5">>
NoSuchDayString == <<"2","0","2","4","-","0","2","-","3","0">>
DateStrings ==
    {TimestampString, DateOnlyString, IsoString, UnpaddedDateString,
     NoSuchDayString}

HistoricalBodies ==
    {NONE, EmptyDict, [instrument_token |-> "256265", interval |-> "day"]}
        \cup {[instrument_token |-> "256265", interval |-> "day", from_date |-> f]
                : f \in DateStrings}
        \cup {[instrument_token |-> "256265", interval |-> "day", to_date |-> t]
                : t \in DateStrings}
        \cup {[instrument_token |-> "256265", interval |-> "day", from_date |-> f,
               to_date |-> t] : f \in DateStrings, t \in DateStrings}

DateFields == <<"from_date", "to_date">>

\* the first date field, in loop order, whose parsing raises; 0 when none does
FirstBadDateField(params) ==
    IF DateFields[1] \in DOMAIN params /\ ~ParseDateField(params[DateFields[1]]).ok
    THEN 1
    ELSE IF DateFields[2] \in DOMAIN params /\ ~ParseDateField(params[DateFields[2]]).ok
    THEN 2
    ELSE 0

\* params after the loop of lines 446-451
ConvertedParams(params) ==
    [k \in DOMAIN params |->
        IF k \in {DateFields[1], DateFields[2]}
        THEN ParseDateField(params[k]).value
        ELSE params[k]]

get_historical_data_DropsSession ==
    /\ ProxyUp
    /\ \E params \in HistoricalBodies :
        /\ req' = [route |-> "get_historical_data", body |-> params]
        /\ IF ~check_authentication
           THEN /\ resp' = Unauthenticated
                /\ calls' = <<>>
           ELSE IF ~TruthyObj(params)
           THEN /\ resp' = EmptyBody
                /\ calls' = <<>>
           ELSE IF FirstBadDateField(params) # 0
           THEN /\ resp' = Response(500, ErrorBody(
                    <<ParseDateField(params[DateFields[FirstBadDateField(params)]]).error>>))
                /\ calls' = <<>>
           ELSE \E o \in Outcomes(BrokerData) :
                /\ calls' = <<Call("historical_data", global_kite, ConvertedParams(params), o)>>
                /\ resp' = BrokerResponse(o, FALSE)
    /\ global_kite' = (IF ~check_authentication THEN NONE ELSE global_kite)
    /\ UNCHANGED <<variant, clientVars, threadVars, running, API_KEY, mainVars>>

get_historical_data ==
    /\ ProxyUp
    /\ \E params \in HistoricalBodies :
        /\ req' = [route |-> "get_historical_data", body |-> params]
        /\ IF ~check_authentication
           THEN /\ resp' = Unauthenticated
                /\ calls' = <<>>
           ELSE IF ~TruthyObj(params)
           THEN /\ resp' = EmptyBody
                /\ calls' = <<>>
           ELSE IF FirstBadDateField(params) # 0
           THEN /\ resp' = Response(500, ErrorBody(
                    <<ParseDateField(params[DateFields[FirstBadDateField(params)]]).error>>))
                /\ calls' = <<>>
           ELSE \E o \in Outcomes(BrokerData) :
                /\ calls' = <<Call("historical_data", global_kite, ConvertedParams(params), o)>>
                /\ resp' = BrokerResponse(o, FALSE)
    /\ UNCHANGED <<variant, clientVars, threadVars, running, proxyVars, mainVars>>

(***************************************************************************)
(* Self-terminating server: src/main.py                                    *)
(***************************************************************************)
MainUp == variant = "self_terminating" /\ running

main_status_guard_CaseSensitive(status) == Truthy(status) /\ status # "success"

\* line 137: the redirect is rejected
main_status_guard(status) == Truthy(status) /\ Lower(status) # "success"

AuthDetails_SwappedNames(data) ==
    [access_token |-> data["access_token"],
     user_id |-> Get(data, "user_name"),
     user_name |-> Get(data, "user_id"),
     user_shortname |-> Get(data, "user_shortname"),
     email |-> Get(data, "email"),
     public_token |-> Get(data, "public_token"),
     refresh_token |-> Get(data, "refresh_token")]

\* lines 155-163
AuthDetails(data) ==
    [access_token |-> data["access_token"],
     user_id |-> Get(data, "user_id"),
     user_name |-> Get(data, "user_name"),
     user_shortname |-> Get(data, "user_shortname"),
     email |-> Get(data, "email"),
     public_token |-> Get(data, "public_token"),
     refresh_token |-> Get(data, "refresh_token")]

RedirectParams_NoToken(rt, ac, ty, st) ==
    [action |-> ac, type |-> ty, status |-> st, request_token |-> None]

\* lines 126-131
RedirectParams(rt, ac, ty, st) ==
    [action |-> ac, type |-> ty, status |-> st, request_token |-> rt]

main_exchange_failed_NoEcho(params, e) ==
    Response(400, [status |-> "error",
                   message |-> <<"Authentication failed: ", e>>,
                   redirect_params |-> [params EXCEPT !.request_token = None]])

\* lines 213-227: the response when the exchange raised
main_exchange_failed(params, e) ==
    Response(400, [status |-> "error",
                   message |-> <<"Authentication failed: ", e>>,
                   redirect_params |-> params])

\* GET /trade/redirect of main.py; request_token is a required query
\* parameter, so FastAPI answers a request without it before the handler runs
main_trade_redirect ==
    /\ MainUp
    /\ \E rt \in RequestTokens, m \in MetaInputs, st \in StatusInputs :
        /\ req' = RedirectReq(rt, m, m, st)
        /\ IF rt = None
           THEN /\ resp' = Response(422, [detail |-> <<"Field required">>])
                /\ calls' = <<>>
                /\ UNCHANGED mainVars
           ELSE /\ stored_redirect_params' = RedirectParams(rt, m, m, st)
                /\ stored_request_token' = rt
                /\ IF main_status_guard(st)
                   THEN /\ resp' = Response(400, ErrorBody(
                                <<"Login was not successful. Status: ", st>>))
                        /\ calls' = <<>>
                        /\ UNCHANGED <<kite, stored_auth_details, shutdown_threads>>
                   ELSE \E o \in Outcomes(Bundles) :
                        /\ calls' = ExchangeCalls(kite, rt, o)
                        /\ IF o.raised
                           THEN /\ resp' = main_exchange_failed(RedirectParams(rt, m, m, st), o.error)
                                /\ UNCHANGED <<kite, stored_auth_details, shutdown_threads>>
                           ELSE /\ shutdown_threads < MaxThreads
                                /\ kite' = SetAccessToken(kite, o.value["access_token"])
                                /\ stored_auth_details' = AuthDetails(o.value)
                                /\ shutdown_threads' = shutdown_threads + 1
                                /\ resp' = Response(200,
                                        [status |-> "success",
                                         message |-> <<"Authentication successful! Thank you! Server will close automatically.">>,
                                         redirect_params |-> stored_redirect_params',
                                         kite_data |-> stored_auth_details'])
                /\ UNCHANGED server_instance
    /\ UNCHANGED <<variant, clientVars, threadVars, running, proxyVars>>

shutdown_server_NoExit ==
    /\ MainUp
    /\ shutdown_threads > 0
    /\ IF server_instance # NONE
       THEN /\ server_instance' = [server_instance EXCEPT !.should_exit = TRUE]
            /\ shutdown_threads' = shutdown_threads - 1
            /\ running' = running
       ELSE /\ running' = running
            /\ shutdown_threads' = shutdown_threads - 1
            /\ server_instance' = server_instance
    /\ UNCHANGED <<variant, clientVars, threadVars, proxyVars, kite, stored_request_token,
                   stored_auth_details, stored_redirect_params, req, resp, calls>>

\* a shutdown_server thread wakes up after its 3 seconds
shutdown_server ==
    /\ MainUp
    /\ shutdown_threads > 0
    /\ IF server_instance # NONE
       THEN /\ server_instance' = [server_instance EXCEPT !.should_exit = TRUE]
            /\ shutdown_threads' = shutdown_threads - 1
            /\ running' = running
       ELSE /\ running' = FALSE         \* os._exit(0)
            /\ shutdown_threads' = 0
            /\ server_instance' = server_instance
    /\ UNCHANGED <<variant, clientVars, threadVars, proxyVars, kite, stored_request_token,
                   stored_auth_details, stored_redirect_params, req, resp, calls>>

\* server_instance.run() returns once should_exit is set; the process ends
\* and its daemon threads with it
server_run_returns ==
    /\ MainUp
    /\ server_instance # NONE
    /\ server_instance.should_exit
    /\ running' = FALSE
    /\ shutdown_threads' = 0
    /\ UNCHANGED <<variant, clientVars, threadVars, proxyVars, kite, stored_request_token,
                   stored_auth_details, stored_redirect_params, server_instance,
                   req, resp, calls>>

(***************************************************************************)
(* Tool client: src/manager/tools/kite_tools.py and src/kite_flask.py       *)
(***************************************************************************)
ToolClientUp == variant = "tool_client"

BASE_API_URL == "http://127.0.0.1:5000"

\* what requests.request meets: an exception of the library, or a response
\* with a status code and a body that is JSON or is not
RequestsExceptions == {"ConnectionError", "ConnectTimeout", "ReadTimeout",
                       "TooManyRedirects"}

\* the classes an exception of requests is an instance of
Bases(c) ==
    CASE c = "ConnectionError" -> {"ConnectionError", "RequestException"}
      [] c = "ConnectTimeout" -> {"ConnectTimeout", "ConnectionError", "Timeout",
                                  "RequestException"}
      [] c = "ReadTimeout" -> {"ReadTimeout", "Timeout", "RequestException"}
      [] c = "TooManyRedirects" -> {"TooManyRedirects", "RequestException"}
      [] c = "HTTPError" -> {"HTTPError", "RequestException"}

StatusCodes == {200, 401, 404, 500}
StatusText(code) ==
    CASE code = 200 -> "200" [] code = 401 -> "401" [] code = 404 -> "404"
      [] code = 500 -> "500"

ServerBodies ==
    {[json |-> [status |-> "error", message |-> <<"X">>]],
     [json |-> [status |-> "success", data |-> [payload |-> "D1"]]],
     [json |-> [status |-> "success",
                login_url |-> LoginUrl(KiteConnect(ConfiguredKey))]],
     [json |-> [status |-> "success", login_url |-> <<>>]],
     [json |-> [detail |-> <<"Not Found">>]],
     [text |-> "<!doctype html>"]}

TransportOutcomes ==
    {[exception |-> c] : c \in RequestsExceptions}
        \cup {[code |-> c, body |-> b] : c \in StatusCodes, b \in ServerBodies}

Raised(c) == [raised |-> c]

\* the classes of the exception that leaves the try block of lines 32-35,
\* none when response.json() returns
RaisedInTry(o) ==
    IF "exception" \in DOMAIN o THEN Bases(o.exception)
    ELSE IF o.code >= 400 THEN Bases("HTTPError")
    ELSE IF "json" \notin DOMAIN o.body THEN json_error_bases
    ELSE {}

\* lines 40-46: the handler of HTTPError
call_api_OnHTTPError_AlwaysWraps(url, o) ==
    ErrorBody(<<"HTTP Error: ", StatusText(o.code), " for ">> \o url
              \o <<". Response: ", "body">>)

call_api_OnHTTPError(url, o) ==
    IF "json" \in DOMAIN o.body
    THEN o.body.json
    ELSE IF "json.JSONDecodeError" \in json_error_bases
    THEN ErrorBody(<<"HTTP Error: ", StatusText(o.code), " for ">> \o url
                   \o <<". Response: ", o.body.text>>)
    ELSE Raised("JSONDecodeError")

\* lines 36-39: the handler of ConnectionError
call_api_OnConnectionError_Raises(url) == Raised("ConnectionError")

call_api_OnConnectionError(url) ==
    ErrorBody(<<"Connection Error: Could not connect to the server at ">>
              \o url \o <<". Is it running?">>)

\* lines 12-50 of kite_tools.py, 11-49 of kite_flask.py: what call_api
\* returns, or the exception it lets through, when the request ends in o
call_api(endpoint, method, params, json_data, o) ==
    LET url == <<BASE_API_URL>> \o endpoint
        e == RaisedInTry(o)
    IN  IF e = {} THEN o.body.json
        ELSE IF "ConnectionError" \in e THEN call_api_OnConnectionError(url)
        ELSE IF "HTTPError" \in e THEN call_api_OnHTTPError(url, o)
        ELSE IF "RequestException" \in e
        THEN ErrorBody(<<"Request failed: ",
                         IF "exception" \in DOMAIN o THEN o.exception
                         ELSE "Expecting value">>)
        ELSE Raised("JSONDecodeError")

\* line 33: the requests issued by one call_api
HttpRequests_RetryOnTimeout(endpoint, method, params, json_data, o) ==
    LET r == [method |-> method, url |-> <<BASE_API_URL>> \o endpoint,
              params |-> params, json |-> json_data, timeout |-> 10,
              outcome |-> o]
    IN  IF "exception" \in DOMAIN o /\ "Timeout" \in Bases(o.exception)
        THEN <<r, r>> ELSE <<r>>

HttpRequests(endpoint, method, params, json_data, o) ==
    <<[method |-> method, url |-> <<BASE_API_URL>> \o endpoint,
       params |-> params, json |-> json_data, timeout |-> 10,
       outcome |-> o]>>

Kwargs == {EmptyDict, [tradingsymbol |-> "INFY"]}
OptionalParam(name, v) == IF Truthy(v) THEN [n \in {name} |-> v] ELSE NONE

\* the one-line functions: the call of call_api each of them makes
Tool(name, args, endpoint, method, params, json_data) ==
    [name |-> name, args |-> args, endpoint |-> endpoint, method |-> method,
     params |-> params, json_data |-> json_data]

ToolFunctions ==
    {Tool("check_authentication_status", EmptyDict, <<"/api/auth/check">>, "GET", NONE, NONE),
     Tool("set_access_token", [access_token |-> "T1"], <<"/api/auth/token/set">>,
          "POST", NONE, [access_token |-> "T1"]),
     Tool("renew_access_token", [refresh_token |-> "F1"], <<"/api/auth/token/renew">>,
          "POST", NONE, [refresh_token |-> "F1"]),
     Tool("get_profile", EmptyDict, <<"/api/user/profile">>, "GET", NONE, NONE),
     Tool("get_holdings", EmptyDict, <<"/api/portfolio/holdings">>, "GET", NONE, NONE),
     Tool("get_positions", EmptyDict, <<"/api/portfolio/positions">>, "GET", NONE, NONE),
     Tool("get_trades", EmptyDict, <<"/api/trades">>, "GET", NONE, NONE),
     Tool("delete_gtt", [trigger_id |-> "G1"], <<"/api/gtt/delete/", "G1">>,
          "DELETE", NONE, NONE)}
    \cup {Tool("get_margins", [segment |-> g], <<"/api/user/margins">>, "GET",
               OptionalParam("segment", g), NONE) : g \in {None, "", "equity"}}
    \cup {Tool("convert_position", k, <<"/api/portfolio/positions/convert">>,
               "PUT", NONE, k) : k \in Kwargs}
    \cup {Tool("place_order", k, <<"/api/orders/place">>, "POST", NONE, k)
            : k \in Kwargs}
    \cup {Tool("modify_order", k, <<"/api/orders/modify">>, "PUT", NONE, k)
            : k \in Kwargs}
    \cup {Tool("place_gtt", k, <<"/api/gtt/place">>, "POST", NONE, k)
            : k \in Kwargs}
    \cup {Tool("get_historical_data", k, <<"/api/market/historical">>, "POST",
               NONE, k) : k \in Kwargs}
    \cup {Tool(f[1], [variety |-> "regular", order_id |-> "O1",
                      parent_order_id |-> p],
               <<f[2], "regular", "/", "O1">>, "DELETE",
               OptionalParam("parent_order_id", p), NONE)
            : f \in {<<"cancel_order", "/api/orders/cancel/">>,
                     <<"exit_order", "/api/orders/exit/">>},
              p \in {None, "P1"}}

\* a call of one of the functions that return call_api(...) as it is
tool_function ==
    /\ ToolClientUp
    /\ \E t \in ToolFunctions, o \in TransportOutcomes :
        /\ tool_call' = [name |-> t.name, args |-> t.args]
        /\ http_requests' = HttpRequests(t.endpoint, t.method, t.params, t.json_data, o)
        /\ returned' = call_api(t.endpoint, t.method, t.params, t.json_data, o)
    /\ browser' = <<>>
    /\ UNCHANGED <<variant, json_error_bases, turn, serverVars>>

OpensBrowser_EmptyToo(response) ==
    /\ "raised" \notin DOMAIN response
    /\ Get(response, "status") = "success"
    /\ "login_url" \in DOMAIN response

\* lines 64-65: webbrowser.open is called with the URL of the answer
OpensBrowser(response) ==
    /\ "raised" \notin DOMAIN response
    /\ Get(response, "status") = "success"
    /\ "login_url" \in DOMAIN response
    /\ response["login_url"] # <<>>

\* initiate_login_flow, lines 53-69
initiate_login_flow ==
    /\ ToolClientUp
    /\ \E o \in TransportOutcomes :
        LET response == call_api(<<"/login">>, "GET", NONE, NONE, o)
        IN  /\ tool_call' = [name |-> "initiate_login_flow", args |-> EmptyDict]
            /\ http_requests' = HttpRequests(<<"/login">>, "GET", NONE, NONE, o)
            /\ returned' = response
            /\ browser' = IF OpensBrowser(response)
                          THEN <<response["login_url"]>> ELSE <<>>
    /\ UNCHANGED <<variant, json_error_bases, turn, serverVars>>

Next ==
    \/ check_auth_endpoint
    \/ login
    \/ trade_redirect
    \/ set_access_token
    \/ renew_access_token
    \/ get_profile
    \/ get_margins
    \/ get_holdings
    \/ get_positions
    \/ convert_position
    \/ place_order
    \/ modify_order
    \/ cancel_order
    \/ exit_order
    \/ get_trades
    \/ place_gtt
    \/ delete_gtt
    \/ get_historical_data
    \/ main_trade_redirect
    \/ shutdown_server
    \/ server_run_returns
    \/ tool_function
    \/ initiate_login_flow

Spec == Init /\ [][Next]_vars

\* a started shutdown thread runs once its sleep is over, and uvicorn's main
\* loop polls should_exit
FairSpec ==
    Spec /\ WF_vars(shutdown_server) /\ WF_vars(server_run_returns)

(***************************************************************************)
(* The proxy with its requests handled by concurrent threads: app.run of   *)
(* kite_flask_tools_server.py line 469 starts the threaded development     *)
(* server.  global_kite is a reference: login binds it to a new object,    *)
(* set_access_token writes the token of the object it refers to.  A step   *)
(* is one access to the shared reference or object, or one broker call.    *)
(***************************************************************************)
ThreadedUp == variant = "proxy_threaded" /\ running

Deref(ref, h) == IF ref = 0 THEN NONE ELSE h[ref]

ThreadedInit ==
    /\ variant = "proxy_threaded"
    /\ running = TRUE
    /\ API_KEY = ConfiguredKey
    /\ global_kite = NONE
    /\ kite = KiteConnect(ConfiguredKey)
    /\ stored_request_token = None
    /\ stored_auth_details = NONE
    /\ stored_redirect_params = NONE
    /\ server_instance = NONE
    /\ shutdown_threads = 0
    /\ req = NoReq
    /\ resp = NoResp
    /\ calls = <<>>
    /\ json_error_bases = {"RequestException", "json.JSONDecodeError"}
    /\ tool_call = NoToolCall
    /\ http_requests = <<>>
    /\ returned = EmptyDict
    /\ browser = <<>>
    /\ turn = <<>>
    /\ heap = <<>>
    /\ global_ref = 0
    /\ handlers = [t \in Handlers |-> IdleHandler]

\* a write of the Session by the route, seen by the handlers past their gate
NoteWriter(hs, route) ==
    [t \in Handlers |->
        IF hs[t].pc = "call"
        THEN [hs[t] EXCEPT !.writers = @ \cup {route}]
        ELSE hs[t]]

ThreadedFrame == UNCHANGED <<variant, running, API_KEY, mainVars, clientVars>>

\* GET /login, lines 76-85: global_kite is bound to a new object
login_threaded ==
    /\ ThreadedUp
    /\ Len(heap) < MaxObjects
    /\ heap' = Append(heap, KiteConnect(API_KEY))
    /\ global_ref' = Len(heap')
    /\ global_kite' = Deref(global_ref', heap')
    /\ handlers' = NoteWriter(handlers, "login")
    /\ req' = [route |-> "login"]
    /\ resp' = Response(200, [status |-> "success",
                              login_url |-> LoginUrl(global_kite')])
    /\ calls' = <<>>
    /\ ThreadedFrame

ThreadedTokenBodies == {NONE, [access_token |-> None], [access_token |-> "T1"]}

\* POST /api/auth/token/set, lines 139-150
set_access_token_threaded ==
    /\ ThreadedUp
    /\ \E params \in ThreadedTokenBodies :
        /\ req' = [route |-> "set_access_token", body |-> params]
        /\ calls' = <<>>
        /\ IF ~TruthyObj(params) \/ "access_token" \notin DOMAIN params
           THEN /\ resp' = Response(400, ErrorBody(<<"Missing 'access_token' in request body.">>))
                /\ UNCHANGED <<heap, global_ref, global_kite, handlers>>
           ELSE /\ global_ref = 0 => Len(heap) < MaxObjects
                /\ global_ref' = IF global_ref = 0 THEN Len(heap) + 1 ELSE global_ref
                /\ heap' = IF global_ref = 0
                           THEN Append(heap, SetAccessToken(KiteConnect(API_KEY),
                                                            params["access_token"]))
                           ELSE [heap EXCEPT ![global_ref] =
                                    SetAccessToken(@, params["access_token"])]
                /\ global_kite' = Deref(global_ref', heap')
                /\ handlers' = NoteWriter(handlers, "set_access_token")
                /\ resp' = Response(200, [status |-> "success",
                                          message |-> <<"Access token set successfully.">>])
    /\ ThreadedFrame

\* POST /api/orders/place, lines 288-291: the gate and the body check
place_order_gate(t) ==
    /\ ThreadedUp
    /\ handlers[t].pc = "idle"
    /\ \E params \in OrderBodies :
        IF ~check_authentication
        THEN /\ req' = [route |-> "place_order", body |-> params]
             /\ resp' = Unauthenticated
             /\ calls' = <<>>
             /\ UNCHANGED handlers
        ELSE IF ~TruthyObj(params)
        THEN /\ req' = [route |-> "place_order", body |-> params]
             /\ resp' = EmptyBody
             /\ calls' = <<>>
             /\ UNCHANGED handlers
        ELSE /\ handlers' = [handlers EXCEPT ![t] =
                    [pc |-> "call", route |-> "place_order", obj |-> 0,
                     gate_token |-> global_kite.access_token, writers |-> {},
                     params |-> params]]
             /\ UNCHANGED <<req, resp, calls>>
    /\ UNCHANGED <<heap, global_ref, global_kite>>
    /\ ThreadedFrame

\* lines 293-297: global_kite is read again, the SDK sends the order with the
\* access token that object holds, and the handler answers
place_order_call(t) ==
    /\ ThreadedUp
    /\ handlers[t].pc = "call"
    /\ \E o \in Outcomes(BrokerOrderIds) :
        /\ calls' = <<Call("place_order", Deref(global_ref, heap),
                           handlers[t].params, o)>>
        /\ resp' = BrokerResponse(o, TRUE)
    /\ req' = [route |-> "place_order", body |-> handlers[t].params]
    /\ handlers' = [handlers EXCEPT ![t] = IdleHandler]
    /\ UNCHANGED <<heap, global_ref, global_kite>>
    /\ ThreadedFrame

ThreadedRenewBodies == {NONE, [refresh_token |-> "F1"]}

\* the Session object while its renewal is with the broker
renew_access_token_Pending_Invalidates(h, obj) ==
    [h EXCEPT ![obj] = SetAccessToken(@, None)]

renew_access_token_Pending(h, obj) == h

\* POST /api/auth/token/renew, lines 169-178: the checks, and the renewal is
\* sent to the broker on the object global_kite refers to
renew_access_token_send(t) ==
    /\ ThreadedUp
    /\ handlers[t].pc = "idle"
    /\ \E params \in ThreadedRenewBodies :
        IF ~TruthyObj(params) \/ "refresh_token" \notin DOMAIN params
        THEN /\ req' = [route |-> "renew_access_token", body |-> params]
             /\ resp' = Response(400, ErrorBody(<<"Missing 'refresh_token' in request body.">>))
             /\ calls' = <<>>
             /\ UNCHANGED <<handlers, heap>>
        ELSE IF global_ref = 0
        THEN /\ req' = [route |-> "renew_access_token", body |-> params]
             /\ resp' = Response(500, ErrorBody(NotInitializedMsg))
             /\ calls' = <<>>
             /\ UNCHANGED <<handlers, heap>>
        ELSE /\ handlers' = [handlers EXCEPT ![t] =
                    [pc |-> "renewing", route |-> "renew_access_token",
                     obj |-> global_ref, gate_token |-> heap[global_ref].access_token,
                     writers |-> {}, params |-> params]]
             /\ heap' = renew_access_token_Pending(heap, global_ref)
             /\ UNCHANGED <<req, resp, calls>>
    /\ global_kite' = Deref(global_ref, heap')
    /\ UNCHANGED global_ref
    /\ ThreadedFrame

ThreadedBundles == {Bundle("A1", FALSE)}

\* lines 178-184: the broker answers; the SDK stores the new token in the
\* object the renewal was called on and line 179 in the object global_kite
\* refers to by then
renew_access_token_return(t) ==
    /\ ThreadedUp
    /\ handlers[t].pc = "renewing"
    /\ \E o \in Outcomes(ThreadedBundles) :
        /\ calls' = <<[op |-> "renew_access_token",
                       access_token |-> handlers[t].gate_token,
                       args |-> [refresh_token |-> handlers[t].params["refresh_token"],
                                 api_secret |-> API_SECRET],
                       result |-> o]>>
        /\ IF o.raised
           THEN /\ resp' = Response(500, ErrorBody(<<o.error>>))
                /\ heap' = heap
                /\ handlers' = [handlers EXCEPT ![t] = IdleHandler]
           ELSE /\ resp' = Response(200, [status |-> "success", data |-> o.value])
                /\ heap' = [r \in 1..Len(heap) |->
                              IF r \in {handlers[t].obj, global_ref}
                              THEN SetAccessToken(heap[r], o.value["access_token"])
                              ELSE heap[r]]
                /\ handlers' = NoteWriter([handlers EXCEPT ![t] = IdleHandler],
                                          "renew_access_token")
    /\ req' = [route |-> "renew_access_token", body |-> handlers[t].params]
    /\ global_kite' = Deref(global_ref, heap')
    /\ UNCHANGED global_ref
    /\ ThreadedFrame

ThreadedNext ==
    \/ login_threaded
    \/ set_access_token_threaded
    \/ \E t \in Handlers : place_order_gate(t)
    \/ \E t \in Handlers : place_order_call(t)
    \/ \E t \in Handlers : renew_access_token_send(t)
    \/ \E t \in Handlers : renew_access_token_return(t)

ThreadedSpec == ThreadedInit /\ [][ThreadedNext]_vars

(***************************************************************************)
(* The agent hierarchy: src/manager/agent.py and                           *)
(* src/manager/sub_agents/kite_agent/agent.py.  An Agent hands its          *)
(* instruction to the language model as text and runs the function the     *)
(* model's reply names, if it is one of its tools; the reply is an input.  *)
(***************************************************************************)
AgentUp == variant = "agent"

AgentInit ==
    /\ variant = "agent"
    /\ running = TRUE
    /\ API_KEY = ConfiguredKey
    /\ global_kite = NONE
    /\ kite = KiteConnect(ConfiguredKey)
    /\ stored_request_token = None
    /\ stored_auth_details = NONE
    /\ stored_redirect_params = NONE
    /\ server_instance = NONE
    /\ shutdown_threads = 0
    /\ req = NoReq
    /\ resp = NoResp
    /\ calls = <<>>
    /\ json_error_bases = {"RequestException", "json.JSONDecodeError"}
    /\ tool_call = NoToolCall
    /\ http_requests = <<>>
    /\ returned = EmptyDict
    /\ browser = <<>>
    /\ turn = <<>>
    /\ heap = <<>>
    /\ global_ref = 0
    /\ handlers = [t \in Handlers |-> IdleHandler]

\* tools=[...] of kite_agent, lines 93-110: the functions the model can call
kite_agent ==
    [name |-> "kite_agent",
     tools |-> {"check_authentication_status", "get_profile", "get_margins",
                "get_holdings", "get_positions", "convert_position",
                "place_order", "modify_order", "cancel_order", "exit_order",
                "get_trades", "place_gtt", "delete_gtt", "get_historical_data",
                "set_access_token", "renew_access_token"}]

\* what the proxy answers to the tool, or that it is not up
AgentOutcomes ==
    {[exception |-> "ConnectionError"],
     [code |-> 200, body |-> [json |-> [status |-> "success",
                                        data |-> [payload |-> "D1"]]]],
     [code |-> 200, body |-> [json |-> [status |-> "error", message |-> <<"X">>]]],
     [code |-> 401, body |-> [json |-> [status |-> "error", message |-> <<"X">>]]]}

\* the user sends a message to root_agent: a new turn begins
user_message ==
    /\ AgentUp
    /\ turn # <<>>
    /\ turn' = <<>>
    /\ tool_call' = NoToolCall
    /\ http_requests' = <<>>
    /\ returned' = EmptyDict
    /\ browser' = <<>>
    /\ UNCHANGED <<variant, json_error_bases, serverVars>>

\* the model's reply is a function call of one of kite_agent's tools and the
\* Agent runs the function
kite_agent_function_call ==
    /\ AgentUp
    /\ Len(turn) < MaxTurnCalls
    /\ \E t \in ToolFunctions, o \in AgentOutcomes :
        /\ t.name \in kite_agent.tools
        /\ tool_call' = [name |-> t.name, args |-> t.args]
        /\ http_requests' = HttpRequests(t.endpoint, t.method, t.params, t.json_data, o)
        /\ returned' = call_api(t.endpoint, t.method, t.params, t.json_data, o)
        /\ turn' = Append(turn, [name |-> t.name,
                                 status |-> Get(returned', "status")])
    /\ browser' = <<>>
    /\ UNCHANGED <<variant, json_error_bases, serverVars>>

AgentNext ==
    \/ user_message
    \/ kite_agent_function_call

AgentSpec == AgentInit /\ [][AgentNext]_vars


(***************************************************************************)
(* Properties                                                              *)
(***************************************************************************)
\* every step of the proxy server handles one request, the one req' names
ProxyHandles(routes) == ProxyUp /\ req'.route \in routes

\* a step of main.py that handles a redirect: the other two steps retire a
\* shutdown thread or end the process
MainHandlesRedirect ==
    /\ MainUp
    /\ running'
    /\ shutdown_threads' >= shutdown_threads
    /\ req'.route = "trade_redirect"

IsSuccess(r) == "status" \in DOMAIN r.body /\ r.body.status = "success"
IsError(r) == "status" \in DOMAIN r.body /\ r.body.status = "error"

\* the request reaches the broker call once it is past the gate
WellFormed(r) ==
    /\ ("body" \in DOMAIN r => TruthyObj(r.body))
    /\ (r.route = "get_historical_data" /\ TruthyObj(r.body)
            => FirstBadDateField(r.body) = 0)

\* C1: a privileged request that finds no Session, or a Session whose access
\* token is null, is answered 401 "Not authenticated. Please login first."
\* and makes no broker call.
C1_GateRejects ==
    [][ ProxyHandles(PrivilegedRoutes)
        /\ (global_kite = NONE \/ global_kite.access_token = None)
        => /\ resp' = Response(401, [status |-> "error",
                     message |-> <<"Not authenticated. Please login first.">>])
           /\ calls' = <<>> ]_vars

\* a privileged request was refused on a Session that exists without a token
C1_Witness ==
    /\ variant = "proxy"
    /\ req.route = "place_order"
    /\ resp.code = 401
    /\ global_kite # NONE
    /\ global_kite.access_token = None

\* C2: once the Session holds an access token, no later request brings the
\* proxy server back to the unauthenticated state.
C2_NeverUnauthenticatedAgain ==
    [][ ProxyUp /\ check_authentication => check_authentication' ]_vars

\* C3 as stated: after a token set that answered success, whatever the token
\* value, the next privileged request passes the gate and its broker
\* operation runs on a Session holding that token.
C3_AnyTokenPassesGate ==
    [][ ProxyUp /\ req.route = "set_access_token" /\ IsSuccess(resp)
        /\ req'.route \in PrivilegedRoutes
        => /\ resp'.code # 401
           /\ (WellFormed(req') => Len(calls') = 1)
           /\ \A i \in 1..Len(calls') :
                calls'[i].access_token = req.body["access_token"] ]_vars

\* C3 amended: after a token set that answered success with a non-empty
\* token, the next privileged request passes the gate and its broker
\* operation runs on a Session holding exactly that token.
C3_NonEmptyTokenPassesGate ==
    [][ ProxyUp /\ req.route = "set_access_token" /\ IsSuccess(resp)
        /\ Truthy(req.body["access_token"])
        /\ req'.route \in PrivilegedRoutes
        => /\ resp'.code # 401
           /\ (WellFormed(req') => Len(calls') = 1)
           /\ \A i \in 1..Len(calls') :
                calls'[i].access_token = req.body["access_token"] ]_vars

\* a privileged operation ran on a token that only a token set can supply
C3_Witness ==
    /\ variant = "proxy"
    /\ req.route = "get_holdings"
    /\ resp.code = 200
    /\ Len(calls) = 1
    /\ calls[1].access_token = "T2"

C5_Renew ==
    [][ ProxyHandles({"renew_access_token"})
        /\ "refresh_token" \in DOMAIN req'.body
        => IF global_kite = NONE
           THEN /\ resp' = Response(500, [status |-> "error",
                        message |-> <<"KiteConnect instance not initialized.">>])
                /\ calls' = <<>>
                /\ global_kite' = NONE
           ELSE /\ Len(calls') = 1
                /\ calls'[1].op = "renew_access_token"
                /\ (~calls'[1].result.raised
                    => /\ IsSuccess(resp')
                       /\ global_kite' = [global_kite EXCEPT
                            !.access_token = calls'[1].result.value["access_token"]]) ]_vars

\* a renewal replaced the token of a Session created with the API key
C5_Witness ==
    /\ variant = "proxy"
    /\ req.route = "renew_access_token"
    /\ IsSuccess(resp)
    /\ global_kite.api_key = ConfiguredKey
    /\ global_kite.access_token = resp.body.data["access_token"]


LoginNotSuccessful(r, st) ==
    /\ r.code = 400
    /\ IsError(r)
    /\ r.body.message = <<"Login was not successful. Status: ", st>>

\* C6: in main.py a redirect whose status is present and not "success" in
\* any letter case is rejected with "Login was not successful", exchanges
\* nothing, leaves the session token and stored_auth_details alone and
\* schedules no shutdown; with status absent or "success" it is exchanged.
C6_StatusGuard ==
    [][ MainHandlesRedirect /\ req'.request_token # None
        => IF req'.status # None /\ Lower(req'.status) # "success"
           THEN /\ LoginNotSuccessful(resp', req'.status)
                /\ calls' = <<>>
                /\ kite' = kite
                /\ stored_auth_details' = stored_auth_details
                /\ shutdown_threads' = shutdown_threads
           ELSE /\ Len(calls') = 1
                /\ calls'[1].op = "generate_session" ]_vars

\* C7: in the proxy server a redirect with status=failed (any letter case)
\* and a request_token exchanges nothing, leaves the Session alone and is
\* answered "Login was not successful" (stated here for a server on which
\* GET /login has created the Session object).
C7_ProxyStatusFailed ==
    [][ ProxyHandles({"trade_redirect"})
        /\ global_kite # NONE
        /\ Truthy(req'.request_token)
        /\ Lower(req'.status) = "failed"
        => /\ calls' = <<>>
           /\ global_kite' = global_kite
           /\ IsError(resp')
           /\ resp'.body.message = <<"Login was not successful. Status: ", req'.status>> ]_vars

\* C8: in both servers a redirect without request_token is answered with an
\* error envelope {status: error, message}, exchanges nothing and changes no
\* session state; the proxy checks this before it looks for the Session.
C8_MissingToken ==
    [][ (ProxyHandles({"trade_redirect"}) \/ MainHandlesRedirect)
        /\ req'.request_token = None
        => /\ IsError(resp')
           /\ "message" \in DOMAIN resp'.body
           /\ calls' = <<>>
           /\ global_kite' = global_kite
           /\ kite' = kite
           /\ stored_auth_details' = stored_auth_details
           /\ (variant = "proxy"
                => resp'.body.message = <<"No request_token found in callback.">>) ]_vars

\* the bundle the exchange of the last request returned
ExchangedBundle == calls[1].result.value
ExchangeSucceeded ==
    /\ req.route = "trade_redirect"
    /\ IsSuccess(resp)
    /\ Len(calls) = 1
    /\ ~calls[1].result.raised

\* the session token and the response after an exchange that returned B
C9_TokenAndResponse ==
    IF variant = "proxy"
    THEN /\ global_kite.access_token = ExchangedBundle["access_token"]
         /\ \A f \in SixFields : resp.body.data[f] = ExchangedBundle[f]
    ELSE /\ kite.access_token = ExchangedBundle["access_token"]
         /\ \A f \in SixFields : resp.body.kite_data[f] = ExchangedBundle[f]
         /\ \A f \in SixFields : stored_auth_details[f] = ExchangedBundle[f]

\* C9 as stated: after an exchange that returned B the session token is B's,
\* the response carries B's six fields, and in main.py stored_auth_details
\* holds exactly those six fields.
C9_ExactlySixFields ==
    ExchangeSucceeded
    => /\ C9_TokenAndResponse
       /\ (variant = "self_terminating" => DOMAIN stored_auth_details = SixFields)

\* C9 amended: stored_auth_details holds the six fields with B's values and
\* a seventh, user_shortname, with B's value or None when B has none.
C9_SixFieldsAndShortname ==
    ExchangeSucceeded
    => /\ C9_TokenAndResponse
       /\ (variant = "self_terminating"
            => /\ DOMAIN stored_auth_details = SixFields \cup {"user_shortname"}
               /\ stored_auth_details["user_shortname"]
                    = Get(ExchangedBundle, "user_shortname"))

\* main.py stored the bundle of a successful exchange
C9_Witness ==
    /\ variant = "self_terminating"
    /\ ExchangeSucceeded
    /\ stored_auth_details # NONE
    /\ stored_auth_details["access_token"] = "A2"
    /\ stored_auth_details["user_shortname"] = None

\* C10: when the exchange of a redirect raises, the session token and the
\* stored credentials keep their values, no shutdown is scheduled and the
\* answer is the error envelope "Authentication failed: ...", which in
\* main.py echoes action, type, status and request_token.
C10_ExchangeFailed ==
    [][ (ProxyHandles({"trade_redirect"}) \/ MainHandlesRedirect)
        /\ Len(calls') = 1 /\ calls'[1].result.raised
        => /\ global_kite' = global_kite
           /\ kite' = kite
           /\ stored_auth_details' = stored_auth_details
           /\ shutdown_threads' = shutdown_threads
           /\ IsError(resp')
           /\ resp'.body.message = <<"Authentication failed: ", calls'[1].result.error>>
           /\ (variant = "self_terminating"
                => /\ "redirect_params" \in DOMAIN resp'.body
                   /\ resp'.body.redirect_params =
                        [action |-> req'.action, type |-> req'.type,
                         status |-> req'.status,
                         request_token |-> req'.request_token]) ]_vars

\* an exchange failed in main.py after an earlier one had succeeded
C10_Witness ==
    /\ variant = "self_terminating"
    /\ req.route = "trade_redirect"
    /\ Len(calls) = 1
    /\ calls[1].result.raised
    /\ resp.code = 400
    /\ stored_auth_details # NONE
    /\ kite.access_token = stored_auth_details["access_token"]


HandlesRedirect == ProxyHandles({"trade_redirect"}) \/ MainHandlesRedirect

\* the guards of the two redirect handlers let the request through
RedirectGuardsPass ==
    IF variant = "proxy"
    THEN req'.request_token # None /\ req'.request_token # ""
         /\ global_kite # NONE
    ELSE req'.request_token # None
         /\ (req'.status \in {None, ""} \/ Lower(req'.status) = "success")

\* C11: a redirect callback calls the broker's generate_session exactly once
\* when its guards pass and not at all when a guard rejects it; a failed
\* exchange is not tried again.
C11_OneExchangePerRedirect ==
    [][ HandlesRedirect
        => /\ Len(calls') = (IF RedirectGuardsPass THEN 1 ELSE 0)
           /\ \A i \in 1..Len(calls') :
                /\ calls'[i].op = "generate_session"
                /\ calls'[i].args.request_token = req'.request_token ]_vars

\* the proxy's exchange raised, after exactly one call
C11_Witness ==
    /\ variant = "proxy"
    /\ req.route = "trade_redirect"
    /\ resp.code = 500
    /\ Len(calls) = 1
    /\ calls[1].op = "generate_session"
    /\ calls[1].result.raised

\* C12: Authenticated is terminal: once a redirect callback has exchanged its
\* request token, a later redirect callback exchanges nothing and changes
\* neither the session token nor the stored credentials.
C12_AuthenticatedIsTerminal ==
    [][ ExchangeSucceeded /\ HandlesRedirect
        => /\ calls' = <<>>
           /\ global_kite' = global_kite
           /\ kite' = kite
           /\ stored_auth_details' = stored_auth_details ]_vars

\* C13: in main.py a redirect whose exchange succeeds starts one shutdown
\* thread and answers while the process still runs, any other redirect
\* starts none; a thread that wakes up sets should_exit or ends the process,
\* and after a successful exchange the process eventually terminates.
C13_ShutdownAfterSuccess ==
    /\ [][ MainHandlesRedirect
           => IF IsSuccess(resp')
              THEN shutdown_threads' = shutdown_threads + 1 /\ running'
              ELSE shutdown_threads' = shutdown_threads ]_vars
    /\ [][ MainUp /\ shutdown_threads' < shutdown_threads /\ running'
           => server_instance' # NONE /\ server_instance'.should_exit ]_vars
    /\ ((variant = "self_terminating" /\ ExchangeSucceeded) ~> ~running)

\* the process ended by way of should_exit after a login
C13_Witness ==
    /\ variant = "self_terminating"
    /\ ~running
    /\ ExchangeSucceeded
    /\ server_instance # NONE
    /\ server_instance.should_exit

\* C14 as stated: no process state retains the request_token or the redirect
\* metadata of a redirect callback, and a request_token that has been sent to
\* the broker is not sent again.
C14_NothingRetained ==
    /\ [](stored_request_token = None /\ stored_redirect_params = NONE)
    /\ [][ HandlesRedirect /\ Len(calls) = 1 /\ calls[1].op = "generate_session"
           => \A i \in 1..Len(calls') :
                calls'[i].args.request_token # calls[1].args.request_token ]_vars

\* C14 amended: main.py keeps the request_token and the redirect metadata of
\* the last redirect callback that reached its handler, whatever the
\* outcome; the proxy keeps nothing of a redirect but the access token of
\* the bundle; one callback sends its request_token to the broker at most
\* once.
C14_MainRetainsLastRedirect ==
    [][ HandlesRedirect
        => /\ Len(calls') <= 1
           /\ (variant = "self_terminating" /\ req'.request_token # None
                => /\ stored_request_token' = req'.request_token
                   /\ stored_redirect_params' =
                        [action |-> req'.action, type |-> req'.type,
                         status |-> req'.status,
                         request_token |-> req'.request_token])
           /\ (variant = "self_terminating" /\ req'.request_token = None
                => /\ stored_request_token' = stored_request_token
                   /\ stored_redirect_params' = stored_redirect_params)
           /\ (variant = "proxy"
                => \/ global_kite' = global_kite
                   \/ /\ Len(calls') = 1
                      /\ ~calls'[1].result.raised
                      /\ global_kite' = [global_kite EXCEPT !.access_token =
                            calls'[1].result.value["access_token"]]) ]_vars

\* a redirect rejected by the status guard left its token and metadata behind
C14_Witness ==
    /\ variant = "self_terminating"
    /\ req.route = "trade_redirect"
    /\ resp.code = 400
    /\ calls = <<>>
    /\ stored_request_token = "R1"
    /\ stored_redirect_params # NONE
    /\ stored_redirect_params.status = "FAILED"


\* the SDK method behind each privileged route
BrokerOperation(route) ==
    CASE route = "get_profile" -> "profile"
      [] route = "get_margins" -> "margins"
      [] route = "get_holdings" -> "holdings"
      [] route = "get_positions" -> "positions"
      [] route = "get_trades" -> "trades"
      [] route = "get_historical_data" -> "historical_data"
      [] OTHER -> route

\* one broker call of the route's operation, and the answer made from it
OneBrokerCall ==
    /\ Len(calls') = 1
    /\ calls'[1].op = BrokerOperation(req'.route)
    /\ calls'[1].access_token = global_kite.access_token
    /\ IF calls'[1].result.raised
       THEN resp' = Response(500, [status |-> "error",
                                   message |-> <<calls'[1].result.error>>])
       ELSE resp'.code = 200 /\ IsSuccess(resp')

\* C15 as stated: a privileged request that passes the gate and the
\* empty-body check makes exactly one broker call; a failed call is answered
\* 500 with the broker's message and is not retried.
C15_OneCallPastGateAndBodyCheck ==
    [][ ProxyHandles(PrivilegedRoutes)
        /\ check_authentication
        /\ ("body" \in DOMAIN req' => TruthyObj(req'.body))
        => OneBrokerCall ]_vars

\* C15 amended: a privileged request that passes the gate, the empty-body
\* check and, on the historical route, the parsing of its date fields makes
\* exactly one broker call, also when the request before it was the same; a
\* failed call is answered 500 with the broker's message and is not retried.
\* A historical request whose date does not parse makes no broker call.
C15_OneCallPerWellFormedRequest ==
    [][ ProxyHandles(PrivilegedRoutes) /\ check_authentication
        => IF WellFormed(req')
           THEN OneBrokerCall
           ELSE calls' = <<>> /\ resp'.code \in {400, 500} /\ IsError(resp') ]_vars

\* an order placement that the broker refused
C15_Witness ==
    /\ req.route = "place_order"
    /\ resp = Response(500, ErrorBody(<<"E1">>))
    /\ Len(calls) = 1
    /\ calls[1].op = "place_order"
    /\ calls[1].result.raised


\* the routes whose success carries a human-readable note
AuthNoteRoutes == {"check_auth_endpoint", "trade_redirect", "set_access_token"}

Number(s, i, n) ==
    LET RECURSIVE Num(_, _)
        Num(j, acc) == IF j = i + n THEN acc
                       ELSE Num(j + 1, acc * 10 + DigitVal(s[j]))
    IN  Num(i, 0)

AllDigits(s, positions) == \A i \in positions : s[i] \in Digits

\* s is written YYYY-MM-DD and names a day of the calendar
IsCanonicalDate(s) ==
    /\ Len(s) = 10
    /\ AllDigits(s, {1, 2, 3, 4, 6, 7, 9, 10})
    /\ s[5] = "-" /\ s[8] = "-"
    /\ Number(s, 1, 4) >= 1
    /\ Number(s, 6, 2) \in 1..12
    /\ Number(s, 9, 2) >= 1
    /\ Number(s, 9, 2) <= DaysIn(Number(s, 1, 4), Number(s, 6, 2))

\* s is written YYYY-MM-DD HH:MM:SS and names a second of the calendar
IsCanonicalTimestamp(s) ==
    /\ Len(s) = 19
    /\ IsCanonicalDate(SubSeq(s, 1, 10))
    /\ s[11] = " " /\ s[14] = ":" /\ s[17] = ":"
    /\ AllDigits(s, {12, 13, 15, 16, 18, 19})
    /\ Number(s, 12, 2) <= 23
    /\ Number(s, 15, 2) <= 59
    /\ Number(s, 18, 2) <= 59

\* s holds a character that neither format can match
HasForeignChar(s) ==
    \E i \in 1..Len(s) : s[i] \notin Digits \cup {"-", ":", " "}

DateValue(s) ==
    [kind |-> "date", year |-> Number(s, 1, 4), month |-> Number(s, 6, 2),
     day |-> Number(s, 9, 2)]

TimestampValue(s) ==
    [kind |-> "datetime", year |-> Number(s, 1, 4), month |-> Number(s, 6, 2),
     day |-> Number(s, 9, 2), hour |-> Number(s, 12, 2),
     minute |-> Number(s, 15, 2), second |-> Number(s, 18, 2)]

ParsingErrors ==
    {"time data does not match format '%Y-%m-%d'", "unconverted data remains",
     "day is out of range for month"}

\* C20: on the historical route a from_date or to_date written
\* YYYY-MM-DD HH:MM:SS reaches the broker as that timestamp and one written
\* YYYY-MM-DD as that date; the first format is tried first; a string in
\* neither format is answered with the parsing error of the second format
\* and no broker call; an absent date field is absent from the broker call
\* and raises no parsing error.
C20_DateParsing ==
    [][ ProxyHandles({"get_historical_data"})
        /\ check_authentication /\ TruthyObj(req'.body)
        => LET b == req'.body
               present == {f \in {"from_date", "to_date"} : f \in DOMAIN b}
               parses(s) == StrptimeDateTime(s).ok \/ StrptimeDate(s).ok
           IN  /\ \A f \in present :
                    /\ IsCanonicalTimestamp(b[f]) \/ IsCanonicalDate(b[f])
                        => parses(b[f])
                    /\ HasForeignChar(b[f]) => ~parses(b[f])
               /\ IF \A f \in present : parses(b[f])
                  THEN /\ Len(calls') = 1
                       /\ calls'[1].op = "historical_data"
                       /\ DOMAIN calls'[1].args = DOMAIN b
                       /\ \A f \in DOMAIN b \ present : calls'[1].args[f] = b[f]
                       /\ \A f \in present :
                            /\ IsCanonicalTimestamp(b[f])
                                => calls'[1].args[f] = TimestampValue(b[f])
                            /\ IsCanonicalDate(b[f])
                                => calls'[1].args[f] = DateValue(b[f])
                            /\ calls'[1].args[f].kind =
                                 IF StrptimeDateTime(b[f]).ok THEN "datetime"
                                 ELSE "date"
                  ELSE /\ calls' = <<>>
                       /\ resp'.code = 500
                       /\ IsError(resp')
                       /\ Len(resp'.body.message) = 1
                       /\ resp'.body.message[1] \in ParsingErrors ]_vars

\* a timestamp and a date reached the broker in one call
C20_Witness ==
    /\ req.route = "get_historical_data"
    /\ {"from_date", "to_date"} \subseteq DOMAIN req.body
    /\ req.body.from_date = TimestampString
    /\ req.body.to_date = DateOnlyString
    /\ Len(calls) = 1
    /\ calls[1].args.from_date.kind = "datetime"
    /\ calls[1].args.to_date.kind = "date"

\* the spec's third example was turned away before the broker
C20_WitnessRejected ==
    /\ req.route = "get_historical_data"
    /\ "from_date" \in DOMAIN req.body
    /\ req.body.from_date = IsoString
    /\ resp.code = 500
    /\ calls = <<>>


\* the outcome of the request of the last tool call
LastOutcome == http_requests[1].outcome
ToolCalled == tool_call.name # "none"

AnswersWith(body) ==
    /\ "code" \in DOMAIN LastOutcome
    /\ "json" \in DOMAIN LastOutcome.body
    /\ LastOutcome.body.json = body

Fails(c) == "exception" \in DOMAIN LastOutcome /\ LastOutcome.exception = c

IsErrorEnvelope(r) ==
    /\ DOMAIN r = {"status", "message"}
    /\ r.status = "error"

ConnectionErrorEnvelope ==
    [status |-> "error",
     message |-> <<"Connection Error: Could not connect to the server at ">>
                 \o http_requests[1].url \o <<". Is it running?">>]

\* C17: a tool function returns the proxy's {status: error, message: X} as
\* it is, whatever the HTTP status, and answers a refused connection with an
\* error envelope whose message says "Connection Error".
C17_ErrorEnvelopePassedThrough ==
    ToolCalled
    => /\ (AnswersWith([status |-> "error", message |-> <<"X">>])
            => returned = [status |-> "error", message |-> <<"X">>])
       /\ (Fails("ConnectionError")
            => /\ IsErrorEnvelope(returned)
               /\ returned.message[1] =
                    "Connection Error: Could not connect to the server at ")

\* a refused order came back as the proxy wrote it
C17_Witness ==
    /\ tool_call.name = "place_order"
    /\ AnswersWith([status |-> "error", message |-> <<"X">>])
    /\ LastOutcome.code = 500
    /\ returned = [status |-> "error", message |-> <<"X">>]

\* C18: call_api never raises; what it returns always has a status field and
\* is {status: error, message} whenever the request failed: an exception of
\* the transport, a 4xx/5xx status, or a body that is not JSON.
C18_AlwaysAnEnvelope ==
    ToolCalled
    => /\ "raised" \notin DOMAIN returned
       /\ "status" \in DOMAIN returned
       /\ ("exception" \in DOMAIN LastOutcome
            \/ LastOutcome.code >= 400
            \/ "json" \notin DOMAIN LastOutcome.body
           => IsErrorEnvelope(returned))

LoggedIn == global_kite # NONE /\ global_kite.access_token \notin {None, ""}

\* C21 as stated: GET /api/auth/check answers success exactly when a
\* privileged request in the same state passes the gate, and otherwise both
\* answer the same error envelope with HTTP 401.
C21_CheckAnswersLikeGate ==
    [][ /\ (ProxyHandles({"check_auth_endpoint"})
            => /\ IsSuccess(resp') <=> LoggedIn
               /\ ~LoggedIn
                    => resp' = Response(401, [status |-> "error",
                         message |-> <<"Not authenticated. Please login first.">>]))
        /\ (ProxyHandles(PrivilegedRoutes)
            => /\ resp'.code # 401 <=> LoggedIn
               /\ ~LoggedIn
                    => resp' = Response(401, [status |-> "error",
                         message |-> <<"Not authenticated. Please login first.">>])) ]_vars

\* C21 amended: GET /api/auth/check answers success exactly when a privileged
\* request in the same state passes the gate; otherwise both answer the same
\* error envelope, the privileged route with HTTP 401 and the check with
\* HTTP 200.
C21_SameVerdictOwnStatus ==
    [][ /\ (ProxyHandles({"check_auth_endpoint"})
            => /\ resp'.code = 200
               /\ IsSuccess(resp') <=> LoggedIn
               /\ ~LoggedIn
                    => resp'.body = [status |-> "error",
                         message |-> <<"Not authenticated. Please login first.">>])
        /\ (ProxyHandles(PrivilegedRoutes)
            => /\ resp'.code # 401 <=> LoggedIn
               /\ ~LoggedIn
                    => resp' = Response(401, [status |-> "error",
                         message |-> <<"Not authenticated. Please login first.">>])) ]_vars

\* the check said no while a Session existed whose token was empty
C21_Witness ==
    /\ req.route = "check_auth_endpoint"
    /\ global_kite # NONE
    /\ global_kite.access_token = ""
    /\ resp.code = 200
    /\ IsError(resp)


\* the strings a response body is made of: status, the pieces of message,
\* login_url and detail, the values of data, redirect_params and kite_data
BodyStrings(body) ==
    UNION {IF k = "status" THEN {body[k]}
           ELSE IF k \in {"message", "login_url", "detail"}
           THEN {body[k][i] : i \in 1..Len(body[k])}
           ELSE {body[k][f] : f \in DOMAIN body[k]}
           : k \in DOMAIN body}

\* C23: no response body of either server holds the api_secret, in the
\* envelope, in the echoed redirect parameters or in the credential bundle;
\* the only broker calls it is passed to are the token exchange and the
\* renewal.
C23_SecretStaysInside ==
    /\ API_SECRET \notin BodyStrings(resp.body)
    /\ \A i \in 1..Len(calls) :
        IF calls[i].op \in {"generate_session", "renew_access_token"}
        THEN calls[i].args.api_secret = API_SECRET
        ELSE "api_secret" \notin DOMAIN calls[i].args

\* main.py answered a successful exchange, echo and bundle included
C23_Witness ==
    /\ variant = "self_terminating"
    /\ ExchangeSucceeded
    /\ calls[1].args.api_secret = API_SECRET
    /\ {"redirect_params", "kite_data"} \subseteq DOMAIN resp.body
    /\ "A1" \in BodyStrings(resp.body)
    /\ "R1" \in BodyStrings(resp.body)


BodyRoutes ==
    {"convert_position", "place_order", "modify_order", "place_gtt",
     "get_historical_data"}

C25_WitnessUnauthenticated ==
    /\ req.route = "place_order"
    /\ req.body = NONE
    /\ ~LoggedIn
    /\ resp.code = 401


SessionRoutes == {"login", "trade_redirect", "set_access_token", "renew_access_token"}

\* C26: a privileged route or GET /api/auth/check leaves the Session as it
\* is, whatever it answers; the Session changes only while login, the
\* redirect callback, token set or token renew is handled.
C26_PrivilegedRoutesOnlyRead ==
    [][ /\ (ProxyHandles(PrivilegedRoutes \cup {"check_auth_endpoint"})
            => global_kite' = global_kite)
        /\ (variant = "proxy" /\ global_kite' # global_kite
            => req'.route \in SessionRoutes) ]_vars

\* a date that does not parse, refused with the Session untouched
C26_Witness ==
    /\ req.route = "get_historical_data"
    /\ resp.code = 500
    /\ calls = <<>>
    /\ LoggedIn
    /\ global_kite.access_token = "T1"


\* the JSON body the server sent, when it sent one
ServerAnswered == "code" \in DOMAIN LastOutcome /\ "json" \in DOMAIN LastOutcome.body
ServerAnswer == LastOutcome.body.json

\* what the proxy's GET /login answers when it succeeds
LoginSucceededBody ==
    [status |-> "success", login_url |-> LoginUrl(KiteConnect(ConfiguredKey))]

\* C28: initiate_login_flow opens the browser exactly when the server's
\* answer has status success and a non-empty top-level login_url, opens that
\* URL and no other, and returns the answer as it is either way; so the URL
\* of a successful GET /login of the proxy is the one opened.
C28_BrowserOpensServerUrl ==
    /\ (variant = "proxy" /\ req.route = "login" /\ IsSuccess(resp)
        => resp.body = LoginSucceededBody)
    /\ (tool_call.name = "initiate_login_flow"
        => /\ Len(browser) <= 1
           /\ (ServerAnswered
                => /\ returned = ServerAnswer
                   /\ browser # <<>>
                        <=> /\ "status" \in DOMAIN ServerAnswer
                            /\ ServerAnswer.status = "success"
                            /\ "login_url" \in DOMAIN ServerAnswer
                            /\ ServerAnswer.login_url # <<>>
                   /\ browser # <<>> => browser = <<ServerAnswer.login_url>>
                   /\ ServerAnswer = LoginSucceededBody
                        => browser = <<LoginUrl(KiteConnect(ConfiguredKey))>>)
           /\ (~ServerAnswered => browser = <<>>))

\* the login page of the broker was opened
C28_Witness ==
    /\ tool_call.name = "initiate_login_flow"
    /\ ServerAnswered
    /\ LastOutcome.code = 200
    /\ returned = LoginSucceededBody
    /\ browser = <<LoginUrl(KiteConnect(ConfiguredKey))>>


\* C29: a renewal that does not succeed leaves the Session as it was: a body
\* without refresh_token is answered 400 even when no Session exists, a
\* missing Session 500, a renewal the broker refuses 500 with the broker's
\* message; the gate's verdict stays what it was.
C29_FailedRenewalKeepsSession ==
    [][ ProxyHandles({"renew_access_token"})
        => LET b == req'.body
               lacksToken == b \in {NONE, EmptyDict} \/ "refresh_token" \notin DOMAIN b
           IN  /\ (lacksToken
                    => /\ resp' = Response(400, [status |-> "error",
                            message |-> <<"Missing 'refresh_token' in request body.">>])
                       /\ calls' = <<>>)
               /\ (~lacksToken /\ global_kite = NONE
                    => /\ resp' = Response(500, [status |-> "error",
                            message |-> <<"KiteConnect instance not initialized.">>])
                       /\ calls' = <<>>)
               /\ (Len(calls') = 1 /\ calls'[1].result.raised
                    => resp' = Response(500, [status |-> "error",
                            message |-> <<calls'[1].result.error>>]))
               /\ (~IsSuccess(resp')
                    => /\ global_kite' = global_kite
                       /\ LoggedIn' <=> LoggedIn) ]_vars

\* the broker refused the renewal and the token in use stayed
C29_Witness ==
    /\ req.route = "renew_access_token"
    /\ resp = Response(500, ErrorBody(<<"E1">>))
    /\ Len(calls) = 1
    /\ calls[1].result.raised
    /\ LoggedIn
    /\ global_kite.access_token = calls[1].access_token


\* C30: in main.py stored_auth_details is set exactly when an exchange has
\* succeeded, and then holds the access token set on the broker session: it
\* starts null, only a successful exchange assigns it, every successful
\* exchange assigns it together with the session's token, and in no state
\* does one of the two show a login without the other.
C30_StoredDetailsFollowSession ==
    /\ [](variant = "self_terminating"
            => /\ stored_auth_details = NONE <=> kite.access_token = None
               /\ stored_auth_details # NONE
                    => stored_auth_details.access_token = kite.access_token)
    /\ [][ variant = "self_terminating"
           => /\ (stored_auth_details' # stored_auth_details \/ kite' # kite
                    => /\ MainHandlesRedirect
                       /\ IsSuccess(resp')
                       /\ Len(calls') = 1
                       /\ ~calls'[1].result.raised)
              /\ (MainHandlesRedirect /\ IsSuccess(resp')
                    => /\ stored_auth_details' # NONE
                       /\ stored_auth_details'.access_token =
                            calls'[1].result.value["access_token"]
                       /\ kite'.access_token =
                            calls'[1].result.value["access_token"]) ]_vars

\* a second login replaced both tokens together
C30_Witness ==
    /\ variant = "self_terminating"
    /\ ExchangeSucceeded
    /\ calls[1].access_token = "A1"
    /\ stored_auth_details # NONE
    /\ stored_auth_details.access_token = "A2"
    /\ kite.access_token = "A2"

(***************************************************************************)
(* Concurrent requests to the proxy.                                       *)
(***************************************************************************)
PlacesOrder(t) ==
    /\ handlers[t].pc = "call"
    /\ handlers'[t].pc = "idle"

RenewedTokens == {b["access_token"] : b \in ThreadedBundles}

\* C22: when an order placement runs concurrently with renewals only, the
\* broker place_order call carries the whole access token the gate saw or the
\* whole renewed access token, never an absent or other value; with no write
\* in between it carries the token the gate saw.
C22_OldOrNewToken ==
    [][\A t \in Handlers :
          (PlacesOrder(t) /\ handlers[t].writers \subseteq {"renew_access_token"})
              => /\ calls'[1].op = "place_order"
                 /\ calls'[1].access_token \notin {None, ""}
                 /\ calls'[1].access_token \in
                        {handlers[t].gate_token} \cup RenewedTokens
                 /\ (handlers[t].writers = {}
                        => calls'[1].access_token = handlers[t].gate_token)]_vars

\* a renewal has just stored the new token in the Session while an order
\* placement whose gate saw the old token is about to call the broker
C22_Witness ==
    \E t \in Handlers :
        /\ handlers[t].pc = "call"
        /\ handlers[t].writers = {"renew_access_token"}
        /\ handlers[t].gate_token = "T1"
        /\ Len(calls) = 1
        /\ calls[1].op = "renew_access_token"
        /\ ~calls[1].result.raised
        /\ Deref(global_ref, heap).access_token = "A1"

\* C27: whenever a privileged handler invokes its broker operation, the
\* Session it invokes it on holds a non-null access token.
C27_CallHoldsToken ==
    [][\A t \in Handlers :
          PlacesOrder(t) => /\ calls'[1].access_token \notin {None, ""}]_vars

(***************************************************************************)
(* The agent hierarchy.                                                    *)
(***************************************************************************)
PrivilegedTools ==
    {"get_profile", "get_margins", "get_holdings", "get_positions",
     "convert_position", "place_order", "modify_order", "cancel_order",
     "exit_order", "get_trades", "place_gtt", "delete_gtt",
     "get_historical_data"}

Checked(i, status) ==
    /\ turn[i].name = "check_authentication_status"
    /\ turn[i].status = status

\* C24: in every turn a call of a privileged tool is preceded by a call of
\* check_authentication_status that returned status success, and no
\* privileged tool is called in a turn whose check returned status error.
C24_CheckBeforePrivileged ==
    \A i \in 1..Len(turn) :
        turn[i].name \in PrivilegedTools
            => /\ \E j \in 1..(i - 1) : Checked(j, "success")
               /\ \A j \in 1..Len(turn) : ~Checked(j, "error")

====
